---- MODULE Spec2Model ----
(***************************************************************************)
(* Model of the camera HTTP server of src/src/app_httpd.cpp: the server    *)
(* task started by startCameraServer, the stream_handler loop and the      *)
(* index_handler.  The camera driver (esp_camera_fb_get/_return), the JPEG *)
(* encoder (frame2jpg) and the transport (httpd_resp_ calls) are the       *)
(* environment: each call picks one of the results the call can give.      *)
(***************************************************************************)
EXTENDS Integers, Sequences, FiniteSets, TLC

VARIABLES
    pc,             \* position of the server task (one task runs every handler)
    fb,             \* camera_fb_t * fb
    _timestamp,     \* struct timeval _timestamp
    res,            \* esp_err_t res
    _jpg_buf_len,   \* size_t _jpg_buf_len
    _jpg_buf,       \* uint8_t * _jpg_buf
    hdrs,           \* response headers set on the stream request so far
    log,            \* calls the current stream session has made, in order
    held,           \* buffers acquired or allocated and not yet released
    iter,           \* loop iterations the current stream session has begun
    ret,            \* value the last stream_handler call returned, or NoRet
    pendingIndex,   \* GET / requests received and not yet dispatched
    pendingStream,  \* GET /stream requests received and not yet dispatched
    indexResp,      \* what the last index_handler call sent, or NoResp
    connected,      \* the client of the current stream session is still there
    time_t_bits     \* width of time_t in the build (tv_sec of struct timeval)

vars == <<pc, fb, _timestamp, res, _jpg_buf_len, _jpg_buf, hdrs, log, held,
          iter, ret, pendingIndex, pendingStream, indexResp, connected,
          time_t_bits>>

streamVars == <<fb, _timestamp, res, _jpg_buf_len, _jpg_buf, hdrs, log, held,
                iter, ret>>

----------------------------------------------------------------------------
(* Bounds of the model *)

MaxIter == 3        \* loop iterations modelled per stream session
MaxPending == 1     \* requests of one kind waiting for the server task

----------------------------------------------------------------------------
(* Values *)

ESP_OK == "ESP_OK"
ESP_FAIL == "ESP_FAIL"
\* failures httpd_resp_send_chunk / httpd_resp_send can report
SendErrs == {"ESP_ERR_HTTPD_RESP_SEND"}
\* failures httpd_resp_set_type can report
SetTypeErrs == {"ESP_ERR_HTTPD_INVALID_REQ"}

PIXFORMAT_JPEG == "PIXFORMAT_JPEG"
PIXFORMAT_RGB565 == "PIXFORMAT_RGB565"

_STREAM_CONTENT_TYPE == "multipart/x-mixed-replace;boundary=123456789000000000000987654321"
_STREAM_BOUNDARY == "\r\n--123456789000000000000987654321\r\n"
BoundaryLen == 36   \* strlen(_STREAM_BOUNDARY)
INDEX_HTML == "INDEX_HTML"
DefaultType == "text/html"   \* content type of a response before set_type

\* widths of time_t the toolchains of the platform have
TimeTBits == {32, 64}

NoRet == "NoRet"
NoResp == [sent |-> FALSE]
Uninit == [tv_sec |-> -1, tv_usec |-> -1]   \* _timestamp before first store

\* pointers: a region and the number of the frame the buffer belongs to
NULL == [region |-> "null", id |-> 0]
FbPtr(id) == [region |-> "fb", id |-> id]       \* fb->buf of frame id
HeapPtr(id) == [region |-> "heap", id |-> id]   \* buffer malloc'ed by frame2jpg

\* lengths and capture times the camera and the encoder deliver
JpegFrameLens == {9, 1200}
RawFrameLens == {1536}
EncodedLens == {1300}
Timestamps == {[tv_sec |-> 0, tv_usec |-> 5], [tv_sec |-> 17, tv_usec |-> 999999]}

NoFrame == [id |-> 0, format |-> "none", len |-> 0, buf |-> NULL,
            timestamp |-> Uninit]

\* camera_fb_t values esp_camera_fb_get can return as frame number id
Frames(id) ==
    { [id |-> id, format |-> f, len |-> l, buf |-> FbPtr(id), timestamp |-> t] :
        f \in {PIXFORMAT_JPEG}, l \in JpegFrameLens, t \in Timestamps }
    \cup
    { [id |-> id, format |-> f, len |-> l, buf |-> FbPtr(id), timestamp |-> t] :
        f \in {PIXFORMAT_RGB565}, l \in RawFrameLens, t \in Timestamps }

----------------------------------------------------------------------------
(* Formatting of the part header: _STREAM_PART through snprintf *)

RECURSIVE Dec(_)
\* decimal digits of a natural number, most significant first (%u, %d >= 0)
Dec(n) == IF n < 10 THEN <<n>> ELSE Append(Dec(n \div 10), n % 10)

RECURSIVE ZeroPad(_, _)
\* digits padded with zeros on the left to a width of w (%0wd)
ZeroPad(ds, w) == IF Len(ds) >= w THEN ds ELSE ZeroPad(<<0>> \o ds, w)

RECURSIVE ParseDec(_)
\* the number a sequence of decimal digits denotes
ParseDec(ds) ==
    IF ds = <<>> THEN 0
    ELSE 10 * ParseDec(SubSeq(ds, 1, Len(ds) - 1)) + ds[Len(ds)]

\* what %d with a minimum width of w prints for an int: a sign and digits
FmtInt(n, w) ==
    IF n < 0
    THEN [neg |-> TRUE, digits |-> ZeroPad(Dec(-n), w - 1)]
    ELSE [neg |-> FALSE, digits |-> ZeroPad(Dec(n), w)]

\* characters of a printed int
FmtLen(f) == Len(f.digits) + (IF f.neg THEN 1 ELSE 0)

\* the two ints %d and %06d take from the arguments that follow _jpg_buf_len:
\* tv_sec and tv_usec when time_t is as wide as int, the low and the high
\* half of tv_sec when time_t has 64 bits
TimeArgs(tv) ==
    IF time_t_bits = 32
    THEN <<tv.tv_sec, tv.tv_usec>>
    ELSE <<tv.tv_sec, IF tv.tv_sec < 0 THEN -1 ELSE 0>>

PartBufSize == 128  \* size given to snprintf

\* snprintf given half the size
SnprintfStored_HalfSize(n) ==
    IF n < PartBufSize \div 2 THEN n ELSE PartBufSize \div 2 - 1

\* characters snprintf stores, without the terminator, of a text of n
SnprintfStored(n) == IF n < PartBufSize THEN n ELSE PartBufSize - 1

\* the text snprintf produces from _STREAM_PART: the three numbers it prints
\* (size_t and the unsigned of %u have the same width), the length of the
\* whole text, which snprintf returns, and the characters of it that are stored
PartHeader(len, tv) ==
    LET cl == Dec(len)
        args == TimeArgs(tv)
        sec == FmtInt(args[1], 1)
        usec == FmtInt(args[2], 6)
        hlen == 26 + 16 + Len(cl) + 2 + 13 + FmtLen(sec) + 1 + FmtLen(usec) + 2 + 2
    IN [contentLength |-> cl, sec |-> sec, usec |-> usec, hlen |-> hlen,
        stored |-> SnprintfStored(hlen)]

NoNumber == [neg |-> FALSE, digits |-> <<>>]
NoHeader == [contentLength |-> <<>>, sec |-> NoNumber, usec |-> NoNumber,
             hlen |-> 0, stored |-> 0]

----------------------------------------------------------------------------
(* The log of one stream session *)

\* one call: its name, its result, the buffer and length passed or returned,
\* the header text passed (send_part), whether the buffer was held at the call,
\* the capture time of the frame returned (fb_get)
Event(op, st, buf, len, hdr, live, ts) ==
    [op |-> op, st |-> st, buf |-> buf, len |-> len, hdr |-> hdr, live |-> live,
     ts |-> ts]

SendOps == {"send_boundary", "send_part", "send_jpg"}

----------------------------------------------------------------------------
(* Initial state: startCameraServer has started the server and registered  *)
(* both handlers; no request has arrived.                                  *)

Init ==
    /\ pc = "select"
    /\ fb = NoFrame
    /\ _timestamp = Uninit
    /\ res = ESP_OK
    /\ _jpg_buf_len = 0
    /\ _jpg_buf = NULL
    /\ hdrs = <<>>
    /\ log = <<>>
    /\ held = {}
    /\ iter = 0
    /\ ret = NoRet
    /\ pendingIndex = 0
    /\ pendingStream = 0
    /\ indexResp = NoResp
    /\ connected = TRUE
    /\ time_t_bits \in TimeTBits

----------------------------------------------------------------------------
(* Clients *)

\* a client sends GET /
ClientGetIndex ==
    /\ pendingIndex < MaxPending
    /\ pendingIndex' = pendingIndex + 1
    /\ UNCHANGED <<pc, streamVars, pendingStream, indexResp, connected, time_t_bits>>

\* a client sends GET /stream
ClientGetStream ==
    /\ pendingStream < MaxPending
    /\ pendingStream' = pendingStream + 1
    /\ UNCHANGED <<pc, streamVars, pendingIndex, indexResp, connected, time_t_bits>>

\* the client of the running stream session closes its connection
ClientDisconnect ==
    /\ pc \in {"set_type", "set_hdr", "fb_get", "frame2jpg", "send_boundary",
               "send_part", "send_jpg", "release", "delay"}
    /\ connected
    /\ connected' = FALSE
    /\ UNCHANGED <<pc, streamVars, pendingIndex, pendingStream, indexResp,
                   time_t_bits>>

----------------------------------------------------------------------------
(* The server task: both URIs are registered on the one server instance,   *)
(* whose task calls the handler of a request and takes the next request    *)
(* when the handler has returned.                                          *)

\* the task calls stream_handler: locals as declared
DispatchStream ==
    /\ pc = "select"
    /\ pendingStream > 0
    /\ pendingStream' = pendingStream - 1
    /\ pc' = "set_type"
    /\ fb' = NoFrame
    /\ _timestamp' = Uninit
    /\ res' = ESP_OK
    /\ _jpg_buf_len' = 0
    /\ _jpg_buf' = NULL
    /\ hdrs' = <<>>
    /\ log' = <<>>
    /\ iter' = 0
    /\ ret' = NoRet
    /\ connected' = TRUE
    /\ UNCHANGED <<held, pendingIndex, indexResp, time_t_bits>>

\* the task calls index_handler
DispatchIndex ==
    /\ pc = "select"
    /\ pendingIndex > 0
    /\ pendingIndex' = pendingIndex - 1
    /\ pc' = "index"
    /\ UNCHANGED <<streamVars, pendingStream, indexResp, connected, time_t_bits>>

\* index_handler: type and header are set, their results ignored, and the
\* result of httpd_resp_send is returned
IndexHandler ==
    /\ pc = "index"
    /\ \E t \in {ESP_OK} \cup SetTypeErrs, st \in {ESP_OK} \cup SendErrs :
        indexResp' = [sent |-> TRUE,
                      type |-> IF t = ESP_OK THEN "text/html" ELSE DefaultType,
                      encoding |-> "identity",
                      body |-> INDEX_HTML,
                      st |-> st]
    /\ pc' = "select"
    /\ UNCHANGED <<streamVars, pendingIndex, pendingStream, connected, time_t_bits>>

----------------------------------------------------------------------------
(* stream_handler *)

\* what stream_handler does not change
serverVars == <<pendingIndex, pendingStream, indexResp, connected, time_t_bits>>

\* results httpd_resp_send_chunk can give: it fails once the client is gone
SendResults == IF connected THEN {ESP_OK} \cup SendErrs ELSE SendErrs

\* the model follows a session for MaxIter iterations, and for one more when
\* the client has gone
MayIterate == iter < MaxIter \/ (~connected /\ iter = MaxIter)

\* SetType that goes on after a failure
SetType_NoReturn ==
    /\ pc = "set_type"
    /\ \E r \in {ESP_OK} \cup SetTypeErrs :
        /\ res' = r
        /\ log' = Append(log, Event("set_type", r, NULL, 0, NoHeader, TRUE, Uninit))
        /\ ret' = ret
        /\ pc' = "set_hdr"
        /\ hdrs' = IF r = ESP_OK
                   THEN Append(hdrs, <<"Content-Type", _STREAM_CONTENT_TYPE>>)
                   ELSE hdrs
    /\ UNCHANGED <<fb, _timestamp, _jpg_buf_len, _jpg_buf, held, iter, serverVars>>

\* httpd_resp_set_type; a failure is returned at once
SetType ==
    /\ pc = "set_type"
    /\ \E r \in {ESP_OK} \cup SetTypeErrs :
        /\ res' = r
        /\ log' = Append(log, Event("set_type", r, NULL, 0, NoHeader, TRUE, Uninit))
        /\ IF r # ESP_OK
           THEN /\ ret' = r
                /\ pc' = "select"
                /\ hdrs' = hdrs
           ELSE /\ ret' = ret
                /\ pc' = "set_hdr"
                /\ hdrs' = Append(hdrs, <<"Content-Type", _STREAM_CONTENT_TYPE>>)
    /\ UNCHANGED <<fb, _timestamp, _jpg_buf_len, _jpg_buf, held, iter, serverVars>>

\* the two httpd_resp_set_hdr calls; their results are not looked at
SetHdrs ==
    /\ pc = "set_hdr"
    /\ hdrs' = hdrs \o << <<"Access-Control-Allow-Origin", "*">>,
                         <<"X-Framerate", "60">> >>
    /\ log' = log \o << Event("set_hdr", ESP_OK, NULL, 0, NoHeader, TRUE, Uninit),
                        Event("set_hdr", ESP_OK, NULL, 0, NoHeader, TRUE, Uninit) >>
    /\ pc' = "fb_get"
    /\ UNCHANGED <<fb, _timestamp, res, _jpg_buf_len, _jpg_buf, held, iter, ret,
                   serverVars>>

\* FbGet that sends every frame to frame2jpg, whatever its format
FbGet_AlwaysConvert ==
    /\ pc = "fb_get"
    /\ MayIterate
    /\ iter' = iter + 1
    /\ \/ /\ fb' = NoFrame
          /\ res' = ESP_FAIL
          /\ log' = Append(log, Event("fb_get", "null", NULL, 0, NoHeader, TRUE, Uninit))
          /\ pc' = "send_boundary"
          /\ UNCHANGED <<_timestamp, _jpg_buf_len, _jpg_buf, held>>
       \/ \E f \in Frames(iter + 1) :
          /\ fb' = f
          /\ held' = held \cup {f.buf}
          /\ _timestamp' = f.timestamp
          /\ log' = Append(log, Event("fb_get", f.format, f.buf, f.len, NoHeader, TRUE, f.timestamp))
          /\ pc' = "frame2jpg"
          /\ UNCHANGED <<_jpg_buf_len, _jpg_buf>>
          /\ res' = res
    /\ UNCHANGED <<hdrs, ret, serverVars>>

\* FbGet that takes the payload length of a JPEG frame only when none is set
FbGet_StaleLen ==
    /\ pc = "fb_get"
    /\ MayIterate
    /\ iter' = iter + 1
    /\ \/ /\ fb' = NoFrame
          /\ res' = ESP_FAIL
          /\ log' = Append(log, Event("fb_get", "null", NULL, 0, NoHeader, TRUE, Uninit))
          /\ pc' = "send_boundary"
          /\ UNCHANGED <<_timestamp, _jpg_buf_len, _jpg_buf, held>>
       \/ \E f \in Frames(iter + 1) :
          /\ fb' = f
          /\ held' = held \cup {f.buf}
          /\ _timestamp' = f.timestamp
          /\ log' = Append(log, Event("fb_get", f.format, f.buf, f.len, NoHeader, TRUE, f.timestamp))
          /\ IF f.format # PIXFORMAT_JPEG
             THEN /\ pc' = "frame2jpg"
                  /\ UNCHANGED <<_jpg_buf_len, _jpg_buf>>
             ELSE /\ _jpg_buf_len' = IF _jpg_buf_len = 0 THEN f.len ELSE _jpg_buf_len
                  /\ _jpg_buf' = f.buf
                  /\ pc' = "send_boundary"
          /\ res' = res
    /\ UNCHANGED <<hdrs, ret, serverVars>>

\* esp_camera_fb_get and the branch on its result, for a JPEG frame up to the
\* end of the else branch
FbGet ==
    /\ pc = "fb_get"
    /\ MayIterate
    /\ iter' = iter + 1
    /\ \/ /\ fb' = NoFrame
          /\ res' = ESP_FAIL
          /\ log' = Append(log, Event("fb_get", "null", NULL, 0, NoHeader, TRUE, Uninit))
          /\ pc' = "send_boundary"
          /\ UNCHANGED <<_timestamp, _jpg_buf_len, _jpg_buf, held>>
       \/ \E f \in Frames(iter + 1) :
          /\ fb' = f
          /\ held' = held \cup {f.buf}
          /\ _timestamp' = f.timestamp
          /\ log' = Append(log, Event("fb_get", f.format, f.buf, f.len, NoHeader, TRUE, f.timestamp))
          /\ IF f.format # PIXFORMAT_JPEG
             THEN /\ pc' = "frame2jpg"
                  /\ UNCHANGED <<_jpg_buf_len, _jpg_buf>>
             ELSE /\ _jpg_buf_len' = f.len
                  /\ _jpg_buf' = f.buf
                  /\ pc' = "send_boundary"
          /\ res' = res
    /\ UNCHANGED <<hdrs, ret, serverVars>>

\* Frame2Jpg with the result of the conversion not looked at
Frame2Jpg_IgnoreResult ==
    /\ pc = "frame2jpg"
    /\ \/ \E n \in EncodedLens :
          /\ _jpg_buf' = HeapPtr(fb.id)
          /\ _jpg_buf_len' = n
          /\ held' = (held \cup {HeapPtr(fb.id)}) \ {fb.buf}
          /\ log' = log \o
                << Event("frame2jpg", "ok", HeapPtr(fb.id), n, NoHeader, fb.buf \in held, Uninit),
                   Event("fb_return", "ok", fb.buf, fb.len, NoHeader, fb.buf \in held, Uninit) >>
       \/ /\ UNCHANGED <<_jpg_buf, _jpg_buf_len>>
          /\ held' = held \ {fb.buf}
          /\ log' = log \o
                << Event("frame2jpg", "fail", NULL, 0, NoHeader, fb.buf \in held, Uninit),
                   Event("fb_return", "ok", fb.buf, fb.len, NoHeader, fb.buf \in held, Uninit) >>
    /\ res' = res
    /\ fb' = NoFrame
    /\ pc' = "send_boundary"
    /\ UNCHANGED <<_timestamp, hdrs, iter, ret, serverVars>>

\* Frame2Jpg that keeps the frame after the conversion
Frame2Jpg_NoReturn ==
    /\ pc = "frame2jpg"
    /\ \/ \E n \in EncodedLens :
          /\ _jpg_buf' = HeapPtr(fb.id)
          /\ _jpg_buf_len' = n
          /\ held' = held \cup {HeapPtr(fb.id)}
          /\ log' = Append(log, Event("frame2jpg", "ok", HeapPtr(fb.id), n,
                                      NoHeader, fb.buf \in held, Uninit))
          /\ res' = res
       \/ /\ UNCHANGED <<_jpg_buf, _jpg_buf_len, held>>
          /\ log' = Append(log, Event("frame2jpg", "fail", NULL, 0, NoHeader,
                                      fb.buf \in held, Uninit))
          /\ res' = ESP_FAIL
    /\ fb' = fb
    /\ pc' = "send_boundary"
    /\ UNCHANGED <<_timestamp, hdrs, iter, ret, serverVars>>

\* frame2jpg, then esp_camera_fb_return of the frame; a failed conversion
\* leaves _jpg_buf and _jpg_buf_len as they were
Frame2Jpg ==
    /\ pc = "frame2jpg"
    /\ \/ \E n \in EncodedLens :
          /\ _jpg_buf' = HeapPtr(fb.id)
          /\ _jpg_buf_len' = n
          /\ held' = (held \cup {HeapPtr(fb.id)}) \ {fb.buf}
          /\ log' = log \o
                << Event("frame2jpg", "ok", HeapPtr(fb.id), n, NoHeader, fb.buf \in held, Uninit),
                   Event("fb_return", "ok", fb.buf, fb.len, NoHeader, fb.buf \in held, Uninit) >>
          /\ res' = res
       \/ /\ UNCHANGED <<_jpg_buf, _jpg_buf_len>>
          /\ held' = held \ {fb.buf}
          /\ log' = log \o
                << Event("frame2jpg", "fail", NULL, 0, NoHeader, fb.buf \in held, Uninit),
                   Event("fb_return", "ok", fb.buf, fb.len, NoHeader, fb.buf \in held, Uninit) >>
          /\ res' = ESP_FAIL
    /\ fb' = NoFrame
    /\ pc' = "send_boundary"
    /\ UNCHANGED <<_timestamp, hdrs, iter, ret, serverVars>>

\* SendBoundary that stores ESP_FAIL for every failure of the write
SendBoundary_GenericFail ==
    /\ pc = "send_boundary"
    /\ IF res = ESP_OK
       THEN \E r \in SendResults :
              /\ res' = IF r = ESP_OK THEN ESP_OK ELSE ESP_FAIL
              /\ log' = Append(log, Event("send_boundary", r, NULL, BoundaryLen,
                                          NoHeader, TRUE, Uninit))
       ELSE UNCHANGED <<res, log>>
    /\ pc' = "send_part"
    /\ UNCHANGED <<fb, _timestamp, _jpg_buf_len, _jpg_buf, hdrs, held, iter, ret,
                   serverVars>>

\* if(res == ESP_OK) res = httpd_resp_send_chunk(_STREAM_BOUNDARY)
SendBoundary ==
    /\ pc = "send_boundary"
    /\ IF res = ESP_OK
       THEN \E r \in SendResults :
              /\ res' = r
              /\ log' = Append(log, Event("send_boundary", r, NULL, BoundaryLen,
                                          NoHeader, TRUE, Uninit))
       ELSE UNCHANGED <<res, log>>
    /\ pc' = "send_part"
    /\ UNCHANGED <<fb, _timestamp, _jpg_buf_len, _jpg_buf, hdrs, held, iter, ret,
                   serverVars>>

\* SendPart with the frame's length in the header instead of _jpg_buf_len
SendPart_FrameLen ==
    /\ pc = "send_part"
    /\ IF res = ESP_OK
       THEN \E r \in SendResults :
              LET h == PartHeader(fb.len, _timestamp) IN
              /\ res' = r
              /\ log' = Append(log, Event("send_part", r, NULL, h.hlen, h, TRUE, Uninit))
       ELSE UNCHANGED <<res, log>>
    /\ pc' = "send_jpg"
    /\ UNCHANGED <<fb, _timestamp, _jpg_buf_len, _jpg_buf, hdrs, held, iter, ret,
                   serverVars>>

\* if(res == ESP_OK) the part header is formatted and sent
SendPart ==
    /\ pc = "send_part"
    /\ IF res = ESP_OK
       THEN \E r \in SendResults :
              LET h == PartHeader(_jpg_buf_len, _timestamp) IN
              /\ res' = r
              /\ log' = Append(log, Event("send_part", r, NULL, h.hlen, h, TRUE, Uninit))
       ELSE UNCHANGED <<res, log>>
    /\ pc' = "send_jpg"
    /\ UNCHANGED <<fb, _timestamp, _jpg_buf_len, _jpg_buf, hdrs, held, iter, ret,
                   serverVars>>

\* SendJpg without the test of res
SendJpg_NoCheck ==
    /\ pc = "send_jpg"
    /\ \E r \in SendResults :
          /\ res' = r
          /\ log' = Append(log, Event("send_jpg", r, _jpg_buf, _jpg_buf_len,
                                      NoHeader, _jpg_buf \in held, Uninit))
    /\ pc' = "release"
    /\ UNCHANGED <<fb, _timestamp, _jpg_buf_len, _jpg_buf, hdrs, held, iter, ret,
                   serverVars>>

\* if(res == ESP_OK) the payload is sent
SendJpg ==
    /\ pc = "send_jpg"
    /\ IF res = ESP_OK
       THEN \E r \in SendResults :
              /\ res' = r
              /\ log' = Append(log, Event("send_jpg", r, _jpg_buf, _jpg_buf_len,
                                          NoHeader, _jpg_buf \in held, Uninit))
       ELSE UNCHANGED <<res, log>>
    /\ pc' = "release"
    /\ UNCHANGED <<fb, _timestamp, _jpg_buf_len, _jpg_buf, hdrs, held, iter, ret,
                   serverVars>>

\* Release without the branch that frees the encoder's buffer
Release_NoFree ==
    /\ pc = "release"
    /\ IF fb # NoFrame
       THEN /\ log' = Append(log, Event("fb_return", "ok", fb.buf, fb.len,
                                        NoHeader, fb.buf \in held, Uninit))
            /\ held' = held \ {fb.buf}
            /\ fb' = NoFrame
            /\ _jpg_buf' = NULL
       ELSE UNCHANGED <<log, held, fb, _jpg_buf>>
    /\ IF res # ESP_OK
       THEN /\ ret' = res
            /\ pc' = "select"
       ELSE /\ ret' = ret
            /\ pc' = "delay"
    /\ UNCHANGED <<_timestamp, res, _jpg_buf_len, hdrs, iter, serverVars>>

\* Release with the test that leaves the loop placed before the release
Release_BreakFirst ==
    /\ pc = "release"
    /\ IF res # ESP_OK
       THEN /\ ret' = res
            /\ pc' = "select"
            /\ UNCHANGED <<log, held, fb, _jpg_buf>>
       ELSE /\ ret' = ret
            /\ pc' = "delay"
            /\ IF fb # NoFrame
               THEN /\ log' = Append(log, Event("fb_return", "ok", fb.buf, fb.len,
                                                NoHeader, fb.buf \in held, Uninit))
                    /\ held' = held \ {fb.buf}
                    /\ fb' = NoFrame
                    /\ _jpg_buf' = NULL
               ELSE IF _jpg_buf # NULL
               THEN /\ log' = Append(log, Event("free", "ok", _jpg_buf, _jpg_buf_len,
                                                NoHeader, _jpg_buf \in held, Uninit))
                    /\ held' = held \ {_jpg_buf}
                    /\ _jpg_buf' = NULL
                    /\ fb' = fb
               ELSE UNCHANGED <<log, held, fb, _jpg_buf>>
    /\ UNCHANGED <<_timestamp, res, _jpg_buf_len, hdrs, iter, serverVars>>

\* Release that leaves the loop after every iteration
Release_BreakAlways ==
    /\ pc = "release"
    /\ IF fb # NoFrame
       THEN /\ log' = Append(log, Event("fb_return", "ok", fb.buf, fb.len,
                                        NoHeader, fb.buf \in held, Uninit))
            /\ held' = held \ {fb.buf}
            /\ fb' = NoFrame
            /\ _jpg_buf' = NULL
       ELSE IF _jpg_buf # NULL
       THEN /\ log' = Append(log, Event("free", "ok", _jpg_buf, _jpg_buf_len,
                                        NoHeader, _jpg_buf \in held, Uninit))
            /\ held' = held \ {_jpg_buf}
            /\ _jpg_buf' = NULL
            /\ fb' = fb
       ELSE UNCHANGED <<log, held, fb, _jpg_buf>>
    /\ ret' = res
    /\ pc' = "select"
    /\ UNCHANGED <<_timestamp, res, _jpg_buf_len, hdrs, iter, serverVars>>

\* Release without the branch that returns the frame to the camera
Release_KeepFrame ==
    /\ pc = "release"
    /\ IF fb = NoFrame /\ _jpg_buf # NULL
       THEN /\ log' = Append(log, Event("free", "ok", _jpg_buf, _jpg_buf_len,
                                        NoHeader, _jpg_buf \in held, Uninit))
            /\ held' = held \ {_jpg_buf}
            /\ _jpg_buf' = NULL
            /\ fb' = fb
       ELSE /\ fb' = NoFrame
            /\ _jpg_buf' = NULL
            /\ UNCHANGED <<log, held>>
    /\ IF res # ESP_OK
       THEN /\ ret' = res
            /\ pc' = "select"
       ELSE /\ ret' = ret
            /\ pc' = "delay"
    /\ UNCHANGED <<_timestamp, res, _jpg_buf_len, hdrs, iter, serverVars>>

\* Release that leaves _jpg_buf pointing into the frame it has returned
Release_StalePtr ==
    /\ pc = "release"
    /\ IF fb # NoFrame
       THEN /\ log' = Append(log, Event("fb_return", "ok", fb.buf, fb.len,
                                        NoHeader, fb.buf \in held, Uninit))
            /\ held' = held \ {fb.buf}
            /\ fb' = NoFrame
            /\ _jpg_buf' = _jpg_buf
       ELSE IF _jpg_buf # NULL
       THEN /\ log' = Append(log, Event("free", "ok", _jpg_buf, _jpg_buf_len,
                                        NoHeader, _jpg_buf \in held, Uninit))
            /\ held' = held \ {_jpg_buf}
            /\ _jpg_buf' = NULL
            /\ fb' = fb
       ELSE UNCHANGED <<log, held, fb, _jpg_buf>>
    /\ IF res # ESP_OK
       THEN /\ ret' = res
            /\ pc' = "select"
       ELSE /\ ret' = ret
            /\ pc' = "delay"
    /\ UNCHANGED <<_timestamp, res, _jpg_buf_len, hdrs, iter, serverVars>>

\* Release without the test that leaves the loop
Release_NoBreak ==
    /\ pc = "release"
    /\ IF fb # NoFrame
       THEN /\ log' = Append(log, Event("fb_return", "ok", fb.buf, fb.len,
                                        NoHeader, fb.buf \in held, Uninit))
            /\ held' = held \ {fb.buf}
            /\ fb' = NoFrame
            /\ _jpg_buf' = NULL
       ELSE IF _jpg_buf # NULL
       THEN /\ log' = Append(log, Event("free", "ok", _jpg_buf, _jpg_buf_len,
                                        NoHeader, _jpg_buf \in held, Uninit))
            /\ held' = held \ {_jpg_buf}
            /\ _jpg_buf' = NULL
            /\ fb' = fb
       ELSE UNCHANGED <<log, held, fb, _jpg_buf>>
    /\ ret' = ret
    /\ pc' = "delay"
    /\ UNCHANGED <<_timestamp, res, _jpg_buf_len, hdrs, iter, serverVars>>

\* Release that leaves the loop only when res is ESP_FAIL
Release_BreakOnEspFailOnly ==
    /\ pc = "release"
    /\ IF fb # NoFrame
       THEN /\ log' = Append(log, Event("fb_return", "ok", fb.buf, fb.len,
                                        NoHeader, fb.buf \in held, Uninit))
            /\ held' = held \ {fb.buf}
            /\ fb' = NoFrame
            /\ _jpg_buf' = NULL
       ELSE IF _jpg_buf # NULL
       THEN /\ log' = Append(log, Event("free", "ok", _jpg_buf, _jpg_buf_len,
                                        NoHeader, _jpg_buf \in held, Uninit))
            /\ held' = held \ {_jpg_buf}
            /\ _jpg_buf' = NULL
            /\ fb' = fb
       ELSE UNCHANGED <<log, held, fb, _jpg_buf>>
    /\ IF res = ESP_FAIL
       THEN /\ ret' = res
            /\ pc' = "select"
       ELSE /\ ret' = ret
            /\ pc' = "delay"
    /\ UNCHANGED <<_timestamp, res, _jpg_buf_len, hdrs, iter, serverVars>>

\* the release of the buffer still held, then the test that leaves the loop
Release ==
    /\ pc = "release"
    /\ IF fb # NoFrame
       THEN /\ log' = Append(log, Event("fb_return", "ok", fb.buf, fb.len,
                                        NoHeader, fb.buf \in held, Uninit))
            /\ held' = held \ {fb.buf}
            /\ fb' = NoFrame
            /\ _jpg_buf' = NULL
       ELSE IF _jpg_buf # NULL
       THEN /\ log' = Append(log, Event("free", "ok", _jpg_buf, _jpg_buf_len,
                                        NoHeader, _jpg_buf \in held, Uninit))
            /\ held' = held \ {_jpg_buf}
            /\ _jpg_buf' = NULL
            /\ fb' = fb
       ELSE UNCHANGED <<log, held, fb, _jpg_buf>>
    /\ IF res # ESP_OK
       THEN /\ ret' = res
            /\ pc' = "select"
       ELSE /\ ret' = ret
            /\ pc' = "delay"
    /\ UNCHANGED <<_timestamp, res, _jpg_buf_len, hdrs, iter, serverVars>>

\* the next iteration without vTaskDelay
Delay_Missing ==
    /\ pc = "delay"
    /\ pc' = "fb_get"
    /\ UNCHANGED <<fb, _timestamp, res, _jpg_buf_len, _jpg_buf, hdrs, log, held,
                   iter, ret, serverVars>>

\* vTaskDelay, then the next iteration
Delay ==
    /\ pc = "delay"
    /\ log' = Append(log, Event("delay", ESP_OK, NULL, 0, NoHeader, TRUE, Uninit))
    /\ pc' = "fb_get"
    /\ UNCHANGED <<fb, _timestamp, res, _jpg_buf_len, _jpg_buf, hdrs, held, iter,
                   ret, serverVars>>

----------------------------------------------------------------------------

Next ==
    \/ ClientGetIndex
    \/ ClientGetStream
    \/ ClientDisconnect
    \/ DispatchStream
    \/ DispatchIndex
    \/ IndexHandler
    \/ SetType
    \/ SetHdrs
    \/ FbGet
    \/ Frame2Jpg
    \/ SendBoundary
    \/ SendPart
    \/ SendJpg
    \/ Release
    \/ Delay

Spec == Init /\ [][Next]_vars

\* the server when clients ask for /stream only: index_handler leaves every
\* variable of the stream session alone
NextStream ==
    \/ ClientGetStream
    \/ DispatchStream
    \/ SetType
    \/ SetHdrs
    \/ FbGet
    \/ Frame2Jpg
    \/ SendBoundary
    \/ SendPart
    \/ SendJpg
    \/ Release
    \/ Delay

SpecStream == Init /\ [][NextStream]_vars

\* a step of stream_handler
StreamStep ==
    \/ SetType
    \/ SetHdrs
    \/ FbGet
    \/ Frame2Jpg
    \/ SendBoundary
    \/ SendPart
    \/ SendJpg
    \/ Release
    \/ Delay

\* stream clients that may go away, and a server task that keeps running: each
\* blocking call of the handler returns, the camera keeps answering
\* the started server when one client has asked for /stream
InitFair ==
    /\ pc = "select"
    /\ fb = NoFrame
    /\ _timestamp = Uninit
    /\ res = ESP_OK
    /\ _jpg_buf_len = 0
    /\ _jpg_buf = NULL
    /\ hdrs = <<>>
    /\ log = <<>>
    /\ held = {}
    /\ iter = 0
    /\ ret = NoRet
    /\ pendingIndex = 0
    /\ pendingStream = 1
    /\ indexResp = NoResp
    /\ connected = TRUE
    /\ time_t_bits \in TimeTBits

\* the session of that client, who may go away at any point of it
NextFair ==
    \/ DispatchStream
    \/ StreamStep
    \/ ClientDisconnect

\* the server task is never starved: a step of the handler that can be taken
\* is taken
SpecFair == InitFair /\ [][NextFair]_vars /\ WF_vars(StreamStep)

TypeOK ==
    /\ pc \in {"select", "index", "set_type", "set_hdr", "fb_get", "frame2jpg",
               "send_boundary", "send_part", "send_jpg", "release", "delay"}
    /\ iter \in 0..(MaxIter + 1)
    /\ connected \in BOOLEAN
    /\ time_t_bits \in TimeTBits
    /\ pendingIndex \in 0..MaxPending
    /\ pendingStream \in 0..MaxPending

----------------------------------------------------------------------------
(* Reading the log *)

Idx == 1..Len(log)

IsGet(i) == log[i].op = "fb_get"
IsSend(i) == log[i].op \in SendOps
IsRelease(i) == log[i].op \in {"fb_return", "free"}

RECURSIVE GetOf(_)
\* the acquisition that began the iteration of entry i (0 before the loop)
GetOf(i) == IF i = 0 THEN 0 ELSE IF IsGet(i) THEN i ELSE GetOf(i - 1)

RECURSIVE IterOf(_)
\* the iteration a log entry belongs to: the acquisitions up to it
IterOf(i) == IF i = 0 THEN 0 ELSE IterOf(i - 1) + (IF IsGet(i) THEN 1 ELSE 0)

SameIter(i, j) == GetOf(i) = GetOf(j) /\ GetOf(i) # 0

\* the chunks the transport accepted, in order
IsWritten(e) == e.op \in SendOps /\ e.st = ESP_OK
Written == SelectSeq(log, IsWritten)

\* parts emitted completely: payloads the transport accepted
CompleteParts == Cardinality({i \in Idx : log[i].op = "send_jpg" /\ log[i].st = ESP_OK})

NumGetOk == Cardinality({i \in Idx : IsGet(i) /\ log[i].st # "null"})
NumFbReturn == Cardinality({i \in Idx : log[i].op = "fb_return"})
NumFree == Cardinality({i \in Idx : log[i].op = "free"})
NumEncodeOk == Cardinality({i \in Idx : log[i].op = "frame2jpg" /\ log[i].st = "ok"})

\* a call that failed
IsFailure(i) ==
    \/ log[i].op = "set_type" /\ log[i].st # ESP_OK
    \/ IsGet(i) /\ log[i].st = "null"
    \/ log[i].op = "frame2jpg" /\ log[i].st = "fail"
    \/ IsSend(i) /\ log[i].st # ESP_OK

WriteFailed(i) == IsSend(i) /\ log[i].st # ESP_OK

Terminated == ret # NoRet

\* the session is between two iterations, or over
BetweenIterations == pc \in {"select", "index", "delay", "fb_get"}

----------------------------------------------------------------------------
(* C1: every payload write is preceded, in its iteration, by a part header *)
(* whose Content-Length denotes the byte count given to the payload write; *)
(* that count is the frame's length for a JPEG frame and the encoder's     *)
(* output length for an encoded frame.                                     *)
ContentLengthMatchesPayload ==
    \A i \in Idx :
        log[i].op = "send_jpg" =>
            /\ i > 1
            /\ log[i - 1].op = "send_part"
            /\ SameIter(i - 1, i)
            /\ ParseDec(log[i - 1].hdr.contentLength) = log[i].len
            /\ LET g == GetOf(i) IN
               IF log[g].st = PIXFORMAT_JPEG
               THEN log[i].len = log[g].len
               ELSE \E j \in (g + 1)..(i - 1) :
                       /\ log[j].op = "frame2jpg"
                       /\ log[j].st = "ok"
                       /\ log[j].len = log[i].len

\* a session that has written the payload of a JPEG frame and of an encoded one
WitnessBothKindsOfPayload ==
    /\ \E i \in Idx : log[i].op = "send_jpg" /\ log[i].buf.region = "fb"
                      /\ log[i].len = 1200
    /\ \E i \in Idx : log[i].op = "send_jpg" /\ log[i].buf.region = "heap"
                      /\ log[i].len = 1300

----------------------------------------------------------------------------
(* C2 as stated: between iterations and at the return, the successful      *)
(* acquisitions are as many as the esp_camera_fb_return calls and the free *)
(* calls together.                                                         *)
AcquiresEqualReleases ==
    BetweenIterations => NumGetOk = NumFbReturn + NumFree

\* the releases of one buffer
ReleasesOf(p, op) == Cardinality({i \in Idx : log[i].op = op /\ log[i].buf = p})

(* C2 amended: between iterations and at the return, every acquired frame  *)
(* has been given back by esp_camera_fb_return exactly once and never      *)
(* freed, and every buffer the encoder allocated has been freed exactly    *)
(* once and never given to esp_camera_fb_return; an encoded frame so has   *)
(* two release operations, any other acquired frame one.                   *)
EachBufferReleasedOnce ==
    BetweenIterations =>
        /\ NumGetOk = NumFbReturn
        /\ NumEncodeOk = NumFree
        /\ \A i \in Idx :
            /\ (IsGet(i) /\ log[i].st # "null") =>
                  /\ ReleasesOf(log[i].buf, "fb_return") = 1
                  /\ ReleasesOf(log[i].buf, "free") = 0
            /\ (log[i].op = "frame2jpg" /\ log[i].st = "ok") =>
                  /\ ReleasesOf(log[i].buf, "free") = 1
                  /\ ReleasesOf(log[i].buf, "fb_return") = 0
        /\ held = {}

\* a session between iterations that has had a JPEG frame and an encoded frame
WitnessMixedFramesReleased ==
    /\ pc = "delay"
    /\ NumFree >= 1
    /\ NumFbReturn >= 2
    /\ \E i \in Idx : IsGet(i) /\ log[i].st = PIXFORMAT_JPEG

----------------------------------------------------------------------------
(* C3: the chunks written are a prefix of (boundary, header, payload)*: a  *)
(* header is sent only right after the accepted boundary of its iteration, *)
(* a payload only right after the accepted header of its iteration, and a  *)
(* boundary only as the first write of an iteration whose acquisition and, *)
(* where needed, encoding succeeded.                                       *)
ChunkOrder == <<"send_boundary", "send_part", "send_jpg">>

ChunksFollowPartSequence ==
    /\ LET W == Written IN
       \A k \in 1..Len(W) : W[k].op = ChunkOrder[((k - 1) % 3) + 1]
    /\ \A i \in Idx :
        /\ log[i].op = "send_part" =>
              /\ i > 1
              /\ log[i - 1].op = "send_boundary"
              /\ log[i - 1].st = ESP_OK
              /\ SameIter(i - 1, i)
        /\ log[i].op = "send_jpg" =>
              /\ i > 1
              /\ log[i - 1].op = "send_part"
              /\ log[i - 1].st = ESP_OK
              /\ SameIter(i - 1, i)
        /\ log[i].op = "send_boundary" =>
              /\ i > 1
              /\ \/ IsGet(i - 1) /\ log[i - 1].st = PIXFORMAT_JPEG
                 \/ /\ i > 3
                    /\ log[i - 1].op = "fb_return"
                    /\ log[i - 2].op = "frame2jpg"
                    /\ log[i - 2].st = "ok"
                    /\ IsGet(i - 3)
                    /\ log[i - 3].st # "null"

\* a session that has begun its second part after a header write failed in
\* no iteration so far
WitnessSecondPartBegun == Len(Written) >= 5

----------------------------------------------------------------------------
(* C4: once a chunk write has failed in iteration k, the session sends no  *)
(* further chunk, acquires and encodes no further frame and only releases; *)
(* k-1 parts are complete; and when the handler has returned, the buffer   *)
(* of iteration k has been released and the failure is the value returned. *)
WriteFailureEndsSession ==
    \A i \in Idx :
        WriteFailed(i) =>
            /\ \A j \in (i + 1)..Len(log) : IsRelease(j)
            /\ Cardinality({j \in (i + 1)..Len(log) : IsRelease(j)}) <= 1
            /\ CompleteParts = IterOf(i) - 1
            /\ iter = IterOf(i)
            /\ pc \notin {"fb_get", "frame2jpg", "delay", "set_type", "set_hdr"}
            /\ Terminated =>
                  /\ ret = log[i].st
                  /\ held = {}
                  /\ Len(log) = i + 1
                  /\ IsRelease(i + 1)
                  /\ log[i + 1].live
                  /\ log[i + 1].buf \in {log[GetOf(i)].buf, HeapPtr(log[GetOf(i)].buf.id)}

\* the handler has returned after the payload write of the second iteration
\* failed
WitnessSecondPayloadFailed ==
    /\ Terminated
    /\ \E i \in Idx : WriteFailed(i) /\ log[i].op = "send_jpg" /\ IterOf(i) = 2

----------------------------------------------------------------------------
(* C5: the payload of a frame that is not JPEG is sent only after frame2jpg *)
(* succeeded on that frame; after a failed frame2jpg the session does       *)
(* nothing but return the frame to the camera, once: it sends no chunk,     *)
(* frees nothing, acquires nothing, and returns ESP_FAIL.                   *)
EncodeFailureEndsSession ==
    /\ \A i \in Idx :
        (log[i].op = "send_jpg" /\ log[GetOf(i)].st # PIXFORMAT_JPEG) =>
            \E j \in (GetOf(i) + 1)..(i - 1) :
                /\ log[j].op = "frame2jpg"
                /\ log[j].st = "ok"
                /\ log[j].buf = log[i].buf
    /\ \A i \in Idx :
        (log[i].op = "frame2jpg" /\ log[i].st = "fail") =>
            /\ IsGet(i - 1)
            /\ Len(log) = i + 1
            /\ log[i + 1].op = "fb_return"
            /\ log[i + 1].buf = log[i - 1].buf
            /\ log[i + 1].live
            /\ ReleasesOf(log[i - 1].buf, "fb_return") = 1
            /\ \A j \in GetOf(i)..Len(log) : ~IsSend(j) /\ log[j].op # "free"
            /\ held = {}
            /\ IF Terminated
               THEN ret = ESP_FAIL
               ELSE pc \in {"send_boundary", "send_part", "send_jpg", "release"}

\* the handler has returned after frame2jpg failed on the first frame
WitnessEncodeFailed ==
    /\ Terminated
    /\ iter = 1
    /\ \E i \in Idx : log[i].op = "frame2jpg" /\ log[i].st = "fail"

----------------------------------------------------------------------------
(* C6: in the iteration of a frame that is already JPEG frame2jpg is not   *)
(* called, and a payload sent is the frame's own buffer, still held, with  *)
(* the frame's length.                                                     *)
JpegFrameSentUnencoded ==
    \A i \in Idx :
        (IsGet(i) /\ log[i].st = PIXFORMAT_JPEG) =>
            \A j \in (i + 1)..Len(log) :
                GetOf(j) = i =>
                    /\ log[j].op # "frame2jpg"
                    /\ log[j].op = "send_jpg" =>
                          /\ log[j].buf = log[i].buf
                          /\ log[j].len = log[i].len
                          /\ log[j].live

\* the payload of a JPEG frame has been sent
WitnessJpegPayloadSent ==
    \E j \in Idx : /\ log[j].op = "send_jpg"
                   /\ log[j].st = ESP_OK
                   /\ log[GetOf(j)].st = PIXFORMAT_JPEG

----------------------------------------------------------------------------
(* C7: stream_handler never returns ESP_OK; when it has returned, a call   *)
(* failed in the iteration it left the loop in, or set_type failed before  *)
(* the loop; while no call has failed it has not returned.                 *)
NeverReturnsSuccess ==
    /\ Terminated =>
          /\ ret # ESP_OK
          /\ \E i \in Idx :
                /\ IsFailure(i)
                /\ GetOf(i) = GetOf(Len(log))
                /\ IterOf(i) = iter
                /\ log[i].op = "set_type" <=> iter = 0
    /\ (\A i \in Idx : ~IsFailure(i)) => ~Terminated

\* the handler has returned after a first iteration without failure
WitnessReturnedAfterGoodIteration ==
    /\ Terminated
    /\ iter >= 2
    /\ CompleteParts >= 1

----------------------------------------------------------------------------
(* C8: when the camera gave N JPEG frames and then none, and no write      *)
(* failed, the handler has returned ESP_FAIL after writing exactly N       *)
(* parts, the k-th with the k-th frame's length as Content-Length and as   *)
(* payload length, and nothing in iteration N+1.                           *)
Gets == SelectSeq(log, LAMBDA e : e.op = "fb_get")

JpegFramesThenUnavailable ==
    /\ Terminated
    /\ Len(Gets) >= 1
    /\ Gets[Len(Gets)].st = "null"
    /\ \A k \in 1..(Len(Gets) - 1) : Gets[k].st = PIXFORMAT_JPEG
    /\ \A i \in Idx : ~WriteFailed(i)

AllJpegFramesEmittedInOrder ==
    JpegFramesThenUnavailable =>
        LET N == Len(Gets) - 1
            G == Gets
            W == Written
        IN
        /\ Len(W) = 3 * N
        /\ CompleteParts = N
        /\ \A k \in 1..N :
            /\ W[3 * k - 2].op = "send_boundary"
            /\ W[3 * k - 1].op = "send_part"
            /\ ParseDec(W[3 * k - 1].hdr.contentLength) = G[k].len
            /\ W[3 * k].op = "send_jpg"
            /\ W[3 * k].len = G[k].len
            /\ W[3 * k].buf = G[k].buf
        /\ IsGet(Len(log))
        /\ ret = ESP_FAIL

\* two JPEG frames of different lengths, then no frame
WitnessTwoJpegFramesThenNone ==
    /\ JpegFramesThenUnavailable
    /\ Len(Gets) = 3
    /\ Gets[1].len = 1200
    /\ Gets[2].len = 9

----------------------------------------------------------------------------
(* C9: when httpd_resp_set_type failed, stream_handler has returned that   *)
(* failure and has done nothing else: no header set, no frame acquired, no *)
(* chunk written, no buffer released.                                      *)
SetTypeFailureReturnsAtOnce ==
    \A i \in Idx :
        (log[i].op = "set_type" /\ log[i].st # ESP_OK) =>
            /\ Len(log) = 1
            /\ ret = log[i].st
            /\ hdrs = <<>>
            /\ iter = 0
            /\ pc \in {"select", "index"}

\* the handler has returned the failure of httpd_resp_set_type
WitnessSetTypeFailed ==
    /\ ret \in SetTypeErrs
    /\ Len(log) = 1

----------------------------------------------------------------------------
(* C10: a GET / request is answered with the static document, content type *)
(* text/html, in every state of the stream session: also while the server  *)
(* task is inside stream_handler a waiting GET / can be given to           *)
(* index_handler.                                                          *)
InStreamHandler ==
    pc \in {"set_type", "set_hdr", "fb_get", "frame2jpg", "send_boundary",
            "send_part", "send_jpg", "release", "delay"}

IndexAnsweredInEveryStreamState ==
    /\ indexResp.sent => (indexResp.type = "text/html" /\ indexResp.body = INDEX_HTML)
    /\ (pendingIndex > 0 /\ InStreamHandler) => ENABLED DispatchIndex

----------------------------------------------------------------------------
----------------------------------------------------------------------------
(* C12: parts are emitted in acquisition order: the time in the header of  *)
(* a part is the capture time of the frame acquired in its iteration, the  *)
(* payloads sent are buffers of the frames acquired, in their order and    *)
(* none twice, and when the capture times of the frames do not decrease    *)
(* the times in the headers do not decrease.                               *)
ParseInt(f) == IF f.neg THEN 0 - ParseDec(f.digits) ELSE ParseDec(f.digits)

TimeLeq(a, b) ==
    \/ a.tv_sec < b.tv_sec
    \/ a.tv_sec = b.tv_sec /\ a.tv_usec <= b.tv_usec

\* the time a part header shows
HeaderTime(h) == [tv_sec |-> ParseInt(h.sec), tv_usec |-> ParseInt(h.usec)]

HeaderShowsCaptureTime ==
    \A i \in Idx :
        log[i].op = "send_part" => HeaderTime(log[i].hdr) = log[GetOf(i)].ts

PayloadsInAcquisitionOrder ==
    \A i \in Idx :
        log[i].op = "send_jpg" =>
            /\ log[i].buf.id = log[GetOf(i)].buf.id
            /\ \A j \in (i + 1)..Len(log) :
                  log[j].op = "send_jpg" => log[i].buf.id < log[j].buf.id

HeaderTimesFollowCaptureTimes ==
    (\A i, j \in Idx :
        (IsGet(i) /\ IsGet(j) /\ i < j /\ log[j].st # "null")
            => TimeLeq(log[i].ts, log[j].ts))
    => \A i, j \in Idx :
        (log[i].op = "send_part" /\ log[j].op = "send_part" /\ i < j)
            => TimeLeq(HeaderTime(log[i].hdr), HeaderTime(log[j].hdr))

EmittedInAcquisitionOrder ==
    /\ HeaderShowsCaptureTime
    /\ PayloadsInAcquisitionOrder
    /\ HeaderTimesFollowCaptureTimes

----------------------------------------------------------------------------
(* C13 as stated: a session holds at most one frame buffer and at most   *)
(* one buffer of the encoder; before it loops again exactly one of the two *)
(* has been released; at the start of every iteration and when the handler *)
(* has returned it holds none.                                             *)
HeldOf(region) == {p \in held : p.region = region}

\* the releases in the iteration that acquisition g began
ReleasesInIter(g) == Cardinality({j \in Idx : IsRelease(j) /\ GetOf(j) = g})

HoldsAtMostOneOfEachKind ==
    /\ Cardinality(HeldOf("fb")) <= 1
    /\ Cardinality(HeldOf("heap")) <= 1
    /\ held = HeldOf("fb") \cup HeldOf("heap")

HoldsNoneBetweenIterations ==
    BetweenIterations =>
        /\ held = {}
        /\ fb = NoFrame
        /\ _jpg_buf = NULL

ExactlyOneReleasedPerIteration ==
    /\ HoldsAtMostOneOfEachKind
    /\ HoldsNoneBetweenIterations
    /\ BetweenIterations =>
          \A g \in Idx : (IsGet(g) /\ log[g].st # "null") => ReleasesInIter(g) = 1

(* C13 amended: a session holds at most one frame buffer and at most one   *)
(* buffer of the encoder; before it loops again every buffer of the        *)
(* iteration has been released, which is the frame alone for a JPEG frame  *)
(* or a failed encoding and both the frame and the encoder's buffer for an *)
(* encoded frame, and at the release step of an iteration that did not     *)
(* fail exactly one buffer is still held; at the start of every iteration  *)
(* and when the handler has returned it holds none.                        *)
AllBuffersReleasedPerIteration ==
    /\ HoldsAtMostOneOfEachKind
    /\ HoldsNoneBetweenIterations
    /\ (pc = "release" /\ res = ESP_OK) => Cardinality(held) = 1
    /\ pc = "delay" => (IsRelease(Len(log)) /\ log[Len(log)].live)
    /\ BetweenIterations =>
          \A g \in Idx :
              (IsGet(g) /\ log[g].st # "null") =>
                  ReleasesInIter(g) =
                      IF \E j \in Idx : /\ GetOf(j) = g
                                        /\ log[j].op = "frame2jpg"
                                        /\ log[j].st = "ok"
                      THEN 2 ELSE 1

\* the second iteration is over; it had an encoded frame, the first a JPEG frame
WitnessTwoIterationsReleased ==
    /\ pc = "delay"
    /\ iter = 2
    /\ held = {}
    /\ log[Len(log)].op = "free"
    /\ \E i \in Idx : IsGet(i) /\ IterOf(i) = 1 /\ log[i].st = PIXFORMAT_JPEG

----------------------------------------------------------------------------
(* C14: after the first call that failed, the session acquires no frame,   *)
(* calls the encoder no more and sends no chunk: all it still does is      *)
(* release.                                                                *)
NoRetryAfterFailure ==
    \A i \in Idx :
        IsFailure(i) =>
            /\ \A j \in (i + 1)..Len(log) : IsRelease(j)
            /\ pc \notin {"set_type", "set_hdr", "fb_get", "frame2jpg", "delay"}
            /\ res # ESP_OK

\* the handler has returned after the camera gave no frame in a later iteration
WitnessAcquisitionFailedLater ==
    /\ Terminated
    /\ iter >= 2
    /\ IsGet(Len(log))
    /\ log[Len(log)].st = "null"

----------------------------------------------------------------------------
(* C15: the frame that is not JPEG is returned to the camera right after   *)
(* the frame2jpg call, whatever its result, and before any chunk of the    *)
(* iteration is sent: during the writes of such an iteration the session   *)
(* does not hold the frame.                                                *)
FrameReturnedRightAfterEncoding ==
    /\ \A i \in Idx :
        log[i].op = "frame2jpg" =>
            /\ i > 1
            /\ IsGet(i - 1)
            /\ i < Len(log)
            /\ log[i + 1].op = "fb_return"
            /\ log[i + 1].buf = log[i - 1].buf
            /\ log[i + 1].live
    /\ \A j \in Idx :
        (IsSend(j) /\ log[GetOf(j)].st = PIXFORMAT_RGB565) =>
            \E k \in (GetOf(j) + 1)..(j - 1) :
                log[k].op = "fb_return" /\ log[k].buf = log[GetOf(j)].buf
    /\ (/\ pc \in {"send_boundary", "send_part", "send_jpg", "release"}
        /\ log[GetOf(Len(log))].st = PIXFORMAT_RGB565) =>
            /\ fb = NoFrame
            /\ HeldOf("fb") = {}

\* the payload of an encoded frame is about to be sent
WitnessEncodedPayloadNext ==
    /\ pc = "send_jpg"
    /\ res = ESP_OK
    /\ _jpg_buf.region = "heap"

----------------------------------------------------------------------------
(* C16: once the client of a stream session has gone, so that every chunk  *)
(* write fails, the session comes to its end, and it holds no buffer when  *)
(* it has ended (the server task keeps running, the camera keeps           *)
(* answering).                                                             *)
DisconnectEndsSession ==
    /\ [](Terminated => held = {})
    /\ (~connected /\ InStreamHandler) ~> (Terminated /\ held = {})

\* the handler has returned from a later iteration after the client had gone
WitnessReturnedAfterDisconnect ==
    /\ ~connected
    /\ Terminated
    /\ iter >= 2
    /\ \E i \in Idx : WriteFailed(i)

----------------------------------------------------------------------------
(* C17: the value stream_handler returns is ESP_FAIL when the camera gave  *)
(* no frame and when frame2jpg failed, and the status the failing          *)
(* httpd_resp_send_chunk call returned when a write failed.                *)
ReturnsStatusOfFailedCall ==
    Terminated =>
        \E i \in Idx :
            /\ IsFailure(i)
            /\ \A j \in Idx : IsFailure(j) => j = i
            /\ (IsGet(i) \/ log[i].op = "frame2jpg") => ret = ESP_FAIL
            /\ (IsSend(i) \/ log[i].op = "set_type") => ret = log[i].st

\* the handler has returned the status of a boundary write that failed
WitnessBoundaryWriteFailed ==
    /\ Terminated
    /\ ret \in SendErrs
    /\ \E i \in Idx : WriteFailed(i) /\ log[i].op = "send_boundary"

----------------------------------------------------------------------------
(* C18: between two acquisitions of a session that follow each other there *)
(* is exactly one yield, right after the release step of the earlier       *)
(* iteration; an iteration in which a call failed has no yield.            *)
IsDelay(i) == log[i].op = "delay"

YieldsOncePerIteration ==
    /\ \A i \in Idx :
        IsDelay(i) =>
            /\ i > 1
            /\ IsRelease(i - 1)
            /\ i < Len(log) => IsGet(i + 1)
            /\ \A k \in GetOf(i)..i : ~IsFailure(k)
    /\ \A i \in Idx :
        (IsGet(i) /\ GetOf(i - 1) # 0) =>
            /\ IsDelay(i - 1)
            /\ Cardinality({k \in GetOf(i - 1)..i : IsDelay(k)}) = 1
    /\ \A i \in Idx : IsFailure(i) => \A j \in (i + 1)..Len(log) : ~IsDelay(j)
    /\ pc = "fb_get" => (IsDelay(Len(log)) \/ iter = 0)

\* a third acquisition has been made
WitnessThirdAcquisition ==
    /\ iter = 3
    /\ pc # "fb_get"
    /\ Cardinality({i \in Idx : IsDelay(i)}) = 2

----------------------------------------------------------------------------
(* C19: no buffer is used or released after its release: a payload write   *)
(* reads a buffer that is held, the frame of its iteration or the buffer   *)
(* the encoder made of it; a frame buffer is released by                   *)
(* esp_camera_fb_return only and a buffer of the encoder by free only,     *)
(* each while it is held; no buffer is released twice.                     *)
NoUseAfterRelease ==
    /\ \A i \in Idx :
        /\ log[i].op = "send_jpg" =>
              /\ log[i].live
              /\ log[i].buf # NULL
              /\ log[i].buf.id = log[GetOf(i)].buf.id
        /\ log[i].op = "frame2jpg" => log[i].live
        /\ log[i].op = "fb_return" => (log[i].live /\ log[i].buf.region = "fb")
        /\ log[i].op = "free" => (log[i].live /\ log[i].buf.region = "heap")
    /\ LET rel == SelectSeq(log, LAMBDA e : e.op \in {"fb_return", "free"}) IN
        \A i, j \in 1..Len(rel) : i < j => rel[i].buf # rel[j].buf
    /\ (_jpg_buf # NULL /\ pc # "frame2jpg") => _jpg_buf \in held
    /\ fb # NoFrame => fb.buf \in held

\* the camera gave no frame in the iteration after one with a JPEG frame, whose
\* buffer _jpg_buf had pointed to
WitnessNoFrameAfterJpegFrame ==
    /\ Terminated
    /\ Len(Gets) >= 2
    /\ Gets[Len(Gets)].st = "null"
    /\ Gets[Len(Gets) - 1].st = PIXFORMAT_JPEG

----------------------------------------------------------------------------
(* The formatting of the part header over the range of its arguments *)

\* lengths of a size_t and values of an int at the ends and inside their ranges
\* (the largest have the ten digits of the largest 32-bit values)
FormatLens == {0, 1200, 2147483647}
FormatSecs == {-2147483647, 0, 17, 2147483647}
FormatUsecs == {-2147483647, -1, 5, 999999, 2147483647}

\* a session that has sent the boundary of its first part, for a JPEG frame of
\* any of these lengths and capture times
InitFormat ==
    \E l \in FormatLens, s \in FormatSecs, u \in FormatUsecs :
        LET t == [tv_sec |-> s, tv_usec |-> u]
            f == [id |-> 1, format |-> PIXFORMAT_JPEG, len |-> l,
                  buf |-> FbPtr(1), timestamp |-> t]
        IN
        /\ pc = "send_part"
        /\ fb = f
        /\ _timestamp = t
        /\ res = ESP_OK
        /\ _jpg_buf_len = l
        /\ _jpg_buf = f.buf
        /\ hdrs = << <<"Content-Type", _STREAM_CONTENT_TYPE>>,
                     <<"Access-Control-Allow-Origin", "*">>,
                     <<"X-Framerate", "60">> >>
        /\ log = << Event("set_type", ESP_OK, NULL, 0, NoHeader, TRUE, Uninit),
                    Event("set_hdr", ESP_OK, NULL, 0, NoHeader, TRUE, Uninit),
                    Event("set_hdr", ESP_OK, NULL, 0, NoHeader, TRUE, Uninit),
                    Event("fb_get", f.format, f.buf, f.len, NoHeader, TRUE, t),
                    Event("send_boundary", ESP_OK, NULL, BoundaryLen, NoHeader,
                          TRUE, Uninit) >>
        /\ held = {f.buf}
        /\ iter = 1
        /\ ret = NoRet
        /\ pendingIndex = 0
        /\ pendingStream = 0
        /\ indexResp = NoResp
        /\ connected = TRUE
        /\ time_t_bits \in TimeTBits

\* the header is formatted and written, then the payload
NextFormat ==
    \/ SendPart
    \/ SendJpg

SpecFormat == InitFormat /\ [][NextFormat]_vars

(* C20: for every length of 32 unsigned bits and every capture time whose  *)
(* seconds and microseconds are ints of 32 bits, the text of the part      *)
(* header and its terminator fit the 128 bytes given to snprintf: the      *)
(* count given to the header write, which is the value snprintf returned,  *)
(* is not greater than the number of characters snprintf stored.           *)
HeaderFitsPartBuf ==
    \A i \in Idx :
        log[i].op = "send_part" =>
            /\ log[i].hdr.hlen + 1 <= PartBufSize
            /\ log[i].len = log[i].hdr.hlen
            /\ log[i].len <= log[i].hdr.stored

\* the longest header has been written: ten digits of length, a sign and ten
\* digits of seconds, a sign and ten digits of microseconds
WitnessLongestHeaderWritten ==
    \E i \in Idx :
        /\ log[i].op = "send_part"
        /\ Len(log[i].hdr.contentLength) = 10
        /\ FmtLen(log[i].hdr.sec) = 11
        /\ FmtLen(log[i].hdr.usec) = 11
        /\ log[i].hdr.hlen = 94

====
